---- MODULE Spec2Model ----
(***************************************************************************)
(* Model of design_patterns/creational/prototype.py: the WeaponType        *)
(* prototype (clone with keyword overrides, determine_probability) and the *)
(* TypeRegistry (a dict of name -> instance).                              *)
(*                                                                         *)
(* Python objects live in a heap and are referred to by identity: heap[i]  *)
(* is the instance __dict__ of WeaponType object i, dicts[i] the contents  *)
(* of dict object i.  An instance __dict__ is a function from the names of *)
(* the attributes set on the instance to their values.  A dict keeps its   *)
(* insertion order, so its contents are a sequence of [k, v] entries.      *)
(* Probabilities are floats in the source; the model holds them in         *)
(* thousandths (0.8 is 800, 0.005 is 5).                                   *)
(***************************************************************************)
EXTENDS Integers, Sequences, FiniteSets, TLC

VARIABLES
    heap,   \* heap[i]: __dict__ of WeaponType instance i; 1 is prototype_weapons
    made,   \* the references clone has returned to the client, in call order
    dicts,  \* dicts[i]: contents of dict object i; 1 is TypeRegistry._objects
    view,   \* the reference a client got from get_objects(), None before
    last    \* the most recent call: its arguments, result and exception

vars == <<heap, made, dicts, view, last>>

-----------------------------------------------------------------------------
(* Bounds and input sets *)

MaxClones == 2

None == 0

NameArgs == {"diamond"}
RarityArgs == {"common", "uncommon", "rare", "godlike"}
ProbArgs == {5}
DamageArgs == {7}
SetDamage == {9}
RegNames == {"iron", "diamond"}

EmptyDict == <<>>

\* The keyword arguments a caller passes to clone(**attrs): any subset of
\* name, rarity, prob and an attribute the class does not define (damage).
KwArgs ==
    { n @@ r @@ p @@ x :
        n \in {EmptyDict} \cup { "name" :> v : v \in NameArgs },
        r \in {EmptyDict} \cup { "rarity" :> v : v \in RarityArgs },
        p \in {EmptyDict} \cup { "prob" :> v : v \in ProbArgs },
        x \in {EmptyDict} \cup { "damage" :> v : v \in DamageArgs } }

\* Two of the calls main makes: clone() and
\* clone(name="diamond", rarity="godlike", prob=0.005).
MainKwArgs ==
    { EmptyDict, [name |-> "diamond", rarity |-> "godlike", prob |-> 5] }

-----------------------------------------------------------------------------
(* WeaponType *)

\* The class attributes (name = 'iron', rarity = "common").
WeaponType == [name |-> "iron", rarity |-> "common"]

\* hasattr(obj, a): the instance __dict__ first, then the class.
hasattr(obj, a) == a \in DOMAIN obj \/ a \in DOMAIN WeaponType

\* obj.a, for an attribute that hasattr finds.
getattr(obj, a) == IF a \in DOMAIN obj THEN obj[a] ELSE WeaponType[a]

\* obj.__dict__.update(attrs)
update(obj, attrs) == attrs @@ obj

\* obj.a = v
setattr(obj, a, v) == (a :> v) @@ obj

Return(v) == [raised |-> FALSE, value |-> v]
Raise == [raised |-> TRUE, value |-> 0]

\* Variant: a prob already on the object is used before the rarity table.
determine_probability_ProbFirst(obj) ==
    IF "prob" \in DOMAIN obj THEN Return(obj["prob"])
    ELSE IF getattr(obj, "rarity") = "common" THEN Return(800)
    ELSE IF getattr(obj, "rarity") = "uncommon" THEN Return(400)
    ELSE IF getattr(obj, "rarity") = "rare" THEN Return(50)
    ELSE Raise

\* Variant: an unknown rarity without prob falls back to 0.8, no KeyError.
determine_probability_Default(obj) ==
    IF getattr(obj, "rarity") = "common" THEN Return(800)
    ELSE IF getattr(obj, "rarity") = "uncommon" THEN Return(400)
    ELSE IF getattr(obj, "rarity") = "rare" THEN Return(50)
    ELSE IF ~ hasattr(obj, "prob") THEN Return(800)
    ELSE Return(getattr(obj, "prob"))

\* Variant: the rarity table alone; a prob on the object is never used.
determine_probability_TableOnly(obj) ==
    IF getattr(obj, "rarity") = "common" THEN Return(800)
    ELSE IF getattr(obj, "rarity") = "uncommon" THEN Return(400)
    ELSE IF getattr(obj, "rarity") = "rare" THEN Return(50)
    ELSE Raise

\* determine_probability(obj): the rarity table, then the prob the object
\* already has, else KeyError.
determine_probability(obj) ==
    IF getattr(obj, "rarity") = "common" THEN Return(800)
    ELSE IF getattr(obj, "rarity") = "uncommon" THEN Return(400)
    ELSE IF getattr(obj, "rarity") = "rare" THEN Return(50)
    ELSE IF ~ hasattr(obj, "prob") THEN Raise
    ELSE Return(getattr(obj, "prob"))

\* Variant: the new object starts as a copy of the receiver's __dict__.
clone_CopyReceiver(self, attrs) ==
    LET obj == update(heap[self], attrs)
        prob == determine_probability(obj)
    IN  IF prob.raised THEN Raise
        ELSE Return(setattr(obj, "prob", prob.value))

\* The __dict__ clone builds for its result: a new instance of the class
\* (empty __dict__), updated with attrs, then given prob.
clone(self, attrs) ==
    LET obj == update(EmptyDict, attrs)
        prob == determine_probability(obj)
    IN  IF prob.raised THEN Raise
        ELSE Return(setattr(obj, "prob", prob.value))

Call(op, self, key, attrs, res, exc) ==
    [op |-> op, self |-> self, key |-> key, attrs |-> attrs, res |-> res, exc |-> exc]

\* Variant: obj = self, so clone updates and returns its receiver.
Clone_ReturnSelf(self, attrs) ==
    /\ Len(made) < MaxClones
    /\ LET r == clone(self, attrs)
       IN  IF r.raised
           THEN /\ last' = Call("clone", self, "", attrs, None, "KeyError")
                /\ UNCHANGED <<heap, made, dicts, view>>
           ELSE /\ heap' = [heap EXCEPT ![self] = r.value]
                /\ made' = Append(made, self)
                /\ last' = Call("clone", self, "", attrs, self, "None")
                /\ UNCHANGED <<dicts, view>>

\* new = self.clone(**attrs)
Clone(self, attrs) ==
    /\ Len(made) < MaxClones
    /\ LET r == clone(self, attrs)
       IN  IF r.raised
           THEN /\ last' = Call("clone", self, "", attrs, None, "KeyError")
                /\ UNCHANGED <<heap, made, dicts, view>>
           ELSE /\ heap' = Append(heap, r.value)
                /\ made' = Append(made, Len(heap) + 1)
                /\ last' = Call("clone", self, "", attrs, Len(heap) + 1, "None")
                /\ UNCHANGED <<dicts, view>>

\* obj.a = v, by a client holding a reference to obj
SetAttr(o, a, v) ==
    /\ heap' = [heap EXCEPT ![o] = setattr(heap[o], a, v)]
    /\ last' = Call("setattr", o, a, EmptyDict, None, "None")
    /\ UNCHANGED <<made, dicts, view>>

-----------------------------------------------------------------------------
(* dict *)

Keys(d) == { d[i].k : i \in 1..Len(d) }

IndexOf(d, k) == CHOOSE i \in 1..Len(d) : d[i].k = k

\* d[k], for a key d has
DictGetItem(d, k) == d[IndexOf(d, k)].v

\* Variant: an entry is appended even when the key is present.
DictSetItem_Append(d, k, v) == Append(d, [k |-> k, v |-> v])

\* d[k] = v: replaces the value of an existing key in place, else appends
DictSetItem(d, k, v) ==
    IF k \in Keys(d) THEN [d EXCEPT ![IndexOf(d, k)].v = v]
    ELSE Append(d, [k |-> k, v |-> v])

\* Variant: every entry is removed.
DictDelItem_Clear(d, k) == <<>>

\* del d[k], for a key d has
DictDelItem(d, k) == SelectSeq(d, LAMBDA e : e.k # k)

-----------------------------------------------------------------------------
(* TypeRegistry *)

\* self._objects: the dict made by __init__
objects == 1

\* Variant: get_objects returns dict(self._objects), a new dict.
GetObjects_Copy ==
    /\ dicts' = Append(dicts, dicts[objects])
    /\ view' = Len(dicts) + 1
    /\ last' = Call("get_objects", None, "", EmptyDict, Len(dicts) + 1, "None")
    /\ UNCHANGED <<heap, made>>

\* view = registry.get_objects(): the dict itself is returned
GetObjects ==
    /\ view' = objects
    /\ last' = Call("get_objects", None, "", EmptyDict, objects, "None")
    /\ UNCHANGED <<heap, made, dicts>>

\* registry.register_object(name, obj)
RegisterObject(name, obj) ==
    /\ dicts' = [dicts EXCEPT ![objects] = DictSetItem(dicts[objects], name, obj)]
    /\ last' = Call("register_object", obj, name, EmptyDict, None, "None")
    /\ UNCHANGED <<heap, made, view>>

\* Variant: self._objects.pop(name, None), silent for an absent name.
UnregisterObject_Pop(name) ==
    /\ dicts' = [dicts EXCEPT ![objects] = DictDelItem(dicts[objects], name)]
    /\ last' = Call("unregister_object", None, name, EmptyDict, None, "None")
    /\ UNCHANGED <<heap, made, view>>

\* registry.unregister_object(name): del raises KeyError for an absent name
UnregisterObject(name) ==
    /\ IF name \in Keys(dicts[objects])
       THEN /\ dicts' = [dicts EXCEPT ![objects] = DictDelItem(dicts[objects], name)]
            /\ last' = Call("unregister_object", None, name, EmptyDict, None, "None")
       ELSE /\ dicts' = dicts
            /\ last' = Call("unregister_object", None, name, EmptyDict, None, "KeyError")
    /\ UNCHANGED <<heap, made, view>>

\* view[name] = obj, through the mapping get_objects() returned
ViewSetItem(name, obj) ==
    /\ view # None
    /\ dicts' = [dicts EXCEPT ![view] = DictSetItem(dicts[view], name, obj)]
    /\ last' = Call("view_setitem", obj, name, EmptyDict, None, "None")
    /\ UNCHANGED <<heap, made, view>>

\* del view[name], through the mapping get_objects() returned
ViewDelItem(name) ==
    /\ view # None
    /\ IF name \in Keys(dicts[view])
       THEN /\ dicts' = [dicts EXCEPT ![view] = DictDelItem(dicts[view], name)]
            /\ last' = Call("view_delitem", None, name, EmptyDict, None, "None")
       ELSE /\ dicts' = dicts
            /\ last' = Call("view_delitem", None, name, EmptyDict, None, "KeyError")
    /\ UNCHANGED <<heap, made, view>>

-----------------------------------------------------------------------------
(* The program: registry = TypeRegistry(); prototype_weapons = WeaponType() *)

Init ==
    /\ heap = <<EmptyDict>>
    /\ made = <<>>
    /\ dicts = <<EmptyDict>>
    /\ view = None
    /\ last = Call("init", None, "", EmptyDict, None, "None")

Objects == 1..Len(heap)

DoClone == \E self \in Objects, attrs \in KwArgs : Clone(self, attrs)
DoSetAttr == \E o \in Objects, v \in SetDamage : SetAttr(o, "damage", v)
DoCloneMain == \E self \in Objects, attrs \in MainKwArgs : Clone(self, attrs)
DoRegister == \E name \in RegNames, obj \in Objects : RegisterObject(name, obj)
DoUnregister == \E name \in RegNames : UnregisterObject(name)
DoViewSetItem == \E name \in RegNames, obj \in Objects : ViewSetItem(name, obj)
DoViewDelItem == \E name \in RegNames : ViewDelItem(name)

\* A client of WeaponType: clones any instance it holds, sets attributes.
NextPrototype ==
    \/ DoClone
    \/ DoSetAttr

SpecPrototype == Init /\ [][NextPrototype]_vars

\* A client of TypeRegistry, keeping the prototypes it clones in it.
NextRegistry ==
    \/ DoCloneMain
    \/ DoRegister
    \/ DoUnregister
    \/ GetObjects
    \/ DoViewSetItem
    \/ DoViewDelItem

SpecRegistry == Init /\ [][NextRegistry]_vars

-----------------------------------------------------------------------------
(* Properties *)

Recognized == {"common", "uncommon", "rare"}

\* The rarity a new instance has once attrs are applied to it.
RarityWith(attrs) == getattr(update(EmptyDict, attrs), "rarity")

\* The entries of the registry, as get_objects() gives them.
Entries == dicts[objects]

Cloned == last.op = "clone" /\ last.exc = "None"

\* C1: a clone whose rarity, after the overrides, is common, uncommon or rare
\* is returned with prob 0.8, 0.4 or 0.05, whatever else was passed, a prob
\* override included.
C1_RarityTableWins ==
    (last.op = "clone" /\ RarityWith(last.attrs) \in Recognized) =>
        /\ last.exc = "None"
        /\ getattr(heap[last.res], "rarity") = RarityWith(last.attrs)
        /\ heap[last.res]["prob"] =
              CASE RarityWith(last.attrs) = "common" -> 800
                [] RarityWith(last.attrs) = "uncommon" -> 400
                [] RarityWith(last.attrs) = "rare" -> 50

\* A prob override passed with a recognized rarity was replaced.
C1_Witness ==
    /\ Cloned
    /\ "prob" \in DOMAIN last.attrs
    /\ last.attrs["prob"] = 5
    /\ RarityWith(last.attrs) = "rare"
    /\ "damage" \in DOMAIN last.attrs
    /\ heap[last.res]["prob"] = 50

\* C2: clone with overrides that give an unrecognized rarity and no prob
\* raises (KeyError is the error the code raises), for every receiver;
\* nothing is returned and no object or dict changes.
C2_UnknownRarityRaises ==
    [][ (/\ last'.op = "clone"
         /\ RarityWith(last'.attrs) \notin Recognized
         /\ "prob" \notin DOMAIN last'.attrs)
        => (/\ last'.exc = "KeyError"
            /\ last'.res = None
            /\ UNCHANGED <<heap, made, dicts, view>>) ]_vars

\* The receiver of the failed call is an earlier clone that carries a prob
\* and an unrecognized rarity of its own.
C2_Witness ==
    /\ last.op = "clone"
    /\ last.exc = "KeyError"
    /\ last.self \in { made[i] : i \in 1..Len(made) }
    /\ "prob" \in DOMAIN heap[last.self]
    /\ getattr(heap[last.self], "rarity") = "godlike"

\* C3: clone with an unrecognized rarity and a prob override returns an
\* instance with that rarity and exactly that prob.
C3_ExplicitProbKept ==
    (/\ last.op = "clone"
     /\ RarityWith(last.attrs) \notin Recognized
     /\ "prob" \in DOMAIN last.attrs)
    => (/\ last.exc = "None"
        /\ getattr(heap[last.res], "rarity") = RarityWith(last.attrs)
        /\ heap[last.res]["prob"] = last.attrs["prob"])

\* main's clone(name="diamond", rarity="godlike", prob=0.005)
C3_Witness ==
    /\ Cloned
    /\ last.attrs = [name |-> "diamond", rarity |-> "godlike", prob |-> 5]
    /\ heap[last.res] = [name |-> "diamond", rarity |-> "godlike", prob |-> 5]

\* C4: clone returns a new object, distinct from its receiver and from every
\* clone returned before, and leaves every existing object as it was; setting
\* an attribute through one reference changes no other object.
C4_ClonesIndependent ==
    [][ /\ (last'.op = "clone" /\ last'.exc = "None") =>
              /\ last'.res # last'.self
              /\ \A i \in 1..Len(made) : made[i] # last'.res
              /\ \A o \in Objects : heap'[o] = heap[o]
        /\ (last'.op = "setattr") =>
              \A r \in {1} \cup { made[i] : i \in 1..Len(made) } :
                  r # last'.self => heap'[r] = heap[r] ]_vars

\* Two clones of the root; damage was set on the first one only.
C4_Witness ==
    /\ Len(made) = 2
    /\ last.op = "setattr"
    /\ last.self = made[1]
    /\ heap[made[1]] = [prob |-> 800, damage |-> 9]
    /\ heap[made[2]] = [prob |-> 800]
    /\ heap[1] = EmptyDict

\* C5: register_object(x, p) leaves x mapped to p itself; a successful
\* unregister_object(x) leaves x absent; the entries under other names are
\* the same after either call.
C5_RegistryRoundTrip ==
    [][ /\ (last'.op = "register_object") =>
              /\ last'.key \in Keys(Entries')
              /\ DictGetItem(Entries', last'.key) = last'.self
        /\ (last'.op = "unregister_object" /\ last'.exc = "None") =>
              last'.key \notin Keys(Entries')
        /\ (last'.op \in {"register_object", "unregister_object"}) =>
              \A k \in RegNames \ {last'.key} :
                  /\ k \in Keys(Entries') <=> k \in Keys(Entries)
                  /\ k \in Keys(Entries) =>
                        DictGetItem(Entries', k) = DictGetItem(Entries, k) ]_vars

\* iron was unregistered while diamond stays registered to a clone.
C5_Witness ==
    /\ last.op = "unregister_object"
    /\ last.exc = "None"
    /\ last.key = "iron"
    /\ Len(made) > 0
    /\ Entries = <<[k |-> "diamond", v |-> made[1]]>>

\* C6: unregister_object of a name the registry does not hold raises
\* (KeyError is the error the code raises) and changes no entry.
C6_UnregisterAbsentRaises ==
    [][ (last'.op = "unregister_object" /\ last'.key \notin Keys(Entries))
        => (last'.exc = "KeyError" /\ dicts' = dicts) ]_vars

\* The failed call named iron; the registry holds diamond alone.
C6_Witness ==
    /\ last.op = "unregister_object"
    /\ last.exc = "KeyError"
    /\ last.key = "iron"
    /\ Keys(Entries) = {"diamond"}

\* C7: register_object under a name already present raises nothing and
\* overwrites: the name maps to the new instance, has one entry, and the
\* registry has as many entries as before.
C7_RegisterOverwrites ==
    [][ (last'.op = "register_object" /\ last'.key \in Keys(Entries))
        => (/\ last'.exc = "None"
            /\ DictGetItem(Entries', last'.key) = last'.self
            /\ Cardinality({ i \in 1..Len(Entries') : Entries'[i].k = last'.key }) = 1
            /\ Len(Entries') = Len(Entries)) ]_vars

\* iron, entered before diamond, was registered again, now to a clone.
C7_Witness ==
    /\ last.op = "register_object"
    /\ last.key = "iron"
    /\ Len(made) > 0
    /\ last.self = made[1]
    /\ Len(Entries) = 2
    /\ Entries[1] = [k |-> "iron", v |-> made[1]]
    /\ Entries[2].k = "diamond"

\* C8: every instance the registry holds has a prob attribute.
C8_RegisteredHaveProb ==
    \A i \in 1..Len(Entries) : hasattr(heap[Entries[i].v], "prob")

C10_ViewIsLive ==
    [][ /\ view' # None => dicts'[view'] = Entries'
        /\ (last'.op = "view_setitem") =>
              /\ last'.key \in Keys(Entries')
              /\ DictGetItem(Entries', last'.key) = last'.self
        /\ (last'.op = "view_delitem" /\ last'.exc = "None") =>
              last'.key \notin Keys(Entries') ]_vars

\* The registry's one entry was deleted through the view.
C10_Witness ==
    /\ last.op = "view_delitem"
    /\ last.exc = "None"
    /\ view # None
    /\ Entries = <<>>

====
